---------------------------- MODULE Spec2Model ----------------------------
(***************************************************************************)
(* A model of the ELF64 parser of src/src/elf.rs (Elf64Parser and the      *)
(* free functions it is built from).                                       *)
(*                                                                         *)
(* The file is modelled by its typed regions: the header at offset 0, the  *)
(* section header table at e_shoff, two string sections and the symbol     *)
(* section.  Offsets and sizes are in bytes and keep the record sizes of   *)
(* the source (64, 64, 24).  Option<T> is a sequence of length 0 or 1, a   *)
(* Vec<T> a sequence, a string the sequence of its bytes.  Indexes that    *)
(* the program takes (section index, symbol index, string offset) are      *)
(* 0-based, as in the source.                                              *)
(***************************************************************************)
EXTENDS Integers, Sequences, FiniteSets, TLC

VARIABLES
    img,            \* the file behind the parser (Elf64Parser.file's contents)
    ehdr,           \* Elf64ParserBack.ehdr
    shdrs,          \* Elf64ParserBack.shdrs
    shstrtab,       \* Elf64ParserBack.shstrtab
    symtab,         \* Elf64ParserBack.symtab (sorted)
    symtab_origin,  \* Elf64ParserBack.symtab_origin (file order)
    strtab,         \* Elf64ParserBack.strtab
    pos,            \* the cursor of Elf64Parser.file
    ret,            \* the last public operation, its arguments and its outcome
    reasons,        \* the normalize::Reason values handed to Reason::from
    converted       \* the symbolize::Reason values it returned for them

vars ==
    <<img, ehdr, shdrs, shstrtab, symtab, symtab_origin, strtab, pos, ret,
      reasons, converted>>

caches == <<ehdr, shdrs, shstrtab, symtab, symtab_origin, strtab>>

-----------------------------------------------------------------------------
(* Program constants.                                                      *)

SHN_UNDEF == 0
STT_NOTYPE == 0
STT_OBJECT == 1
STT_FUNC == 2
EhdrSize == 64
ShdrSize == 64
SymSize == 24

(* Bounds of the model.                                                    *)

MaxSyms == 3        \* symbols in a symbol table of the symbol family
MaxStr == 3         \* bytes in a string table of the string family
MaxAddr == 2        \* addresses looked up are 0..MaxAddr

-----------------------------------------------------------------------------
(* Option, and small helpers.                                              *)

None == <<>>
Some(x) == <<x>>
IsSome(o) == Len(o) = 1
IsNone(o) == Len(o) = 0
Unwrap(o) == o[1]

Max(a, b) == IF a >= b THEN a ELSE b

\* v[i] for a 0-based index i
At(v, i) == v[i + 1]

DotSymtab == <<46, 115, 121, 109, 116, 97, 98>>
DotStrtab == <<46, 115, 116, 114, 116, 97, 98>>
DotShstrtab == <<46, 115, 104, 115, 116, 114, 116, 97, 98>>
DotText == <<46, 116, 101, 120, 116>>

-----------------------------------------------------------------------------
(* The outcome of a function: the parser it leaves behind and Ok / Err /   *)
(* a panic.  num, len, name and sym carry the returned value.              *)

Res(p, kind, err, num, len, name, sym) ==
    [p |-> p, kind |-> kind, err |-> err, num |-> num, len |-> len,
     name |-> name, sym |-> sym]

Ok(p) == Res(p, "ok", "", 0, 0, <<>>, None)
OkNum(p, n) == Res(p, "ok", "", n, 0, <<>>, None)
OkRange(p, off, n) == Res(p, "ok", "", off, n, <<>>, None)
OkName(p, s) == Res(p, "ok", "", 0, 0, s, None)
OkNameNum(p, s, n) == Res(p, "ok", "", n, 0, s, None)
OkSym(p, s) == Res(p, "ok", "", 0, 0, <<>>, Some(s))
Err(p, e) == Res(p, "err", e, 0, 0, <<>>, None)
Panic(p, msg) == Res(p, "panic", msg, 0, 0, <<>>, None)

\* r?: hand an Err (or a panic) on to the caller, else go on with r.
Try(r, Cont(_)) == IF r.kind # "ok" THEN r ELSE Cont(r)

\* let v = ...;
Let(v, Body(_)) == Body(v)

-----------------------------------------------------------------------------
(* The file: std::fs::File over img.                                       *)

\* File::read_exact at the cursor: n bytes or UnexpectedEof; a short read
\* leaves the cursor at the end of the file.
FileReadExact(p, n) ==
    IF n = 0 THEN Ok(p)
    ELSE IF p.pos + n <= img.flen
         THEN Ok([p EXCEPT !.pos = p.pos + n, !.reads = @ + 1])
         ELSE Err([p EXCEPT !.pos = Max(p.pos, img.flen), !.reads = @ + 1],
                  "UnexpectedEof")

\* File::seek(SeekFrom::Start(off))
FileSeek(p, off) == [p EXCEPT !.pos = off]

\* The 64 bytes at off as an Elf64_Ehdr.  The header proper is at offset 0;
\* the bytes anywhere else are other data of the file, which the cast
\* reinterprets (img.junk).
EhdrAt(off) == IF off = 0 THEN img.ehdr ELSE img.junk

\* The num * 64 bytes at off as a Vec<Elf64_Shdr>.
ShdrsAt(off, num) ==
    IF off = img.ehdr.e_shoff /\ num <= Len(img.shdrs)
    THEN SubSeq(img.shdrs, 1, num)
    ELSE [i \in 1..num |-> [sh_name |-> 0, sh_offset |-> 0, sh_size |-> 0]]

\* The size bytes at off, as bytes.  The string sections hold the bytes the
\* file gives them; every other byte of the file reads as 0 here.
ByteAt(k) ==
    IF k >= img.shstr_off /\ k < img.shstr_off + Len(img.shstr)
    THEN img.shstr[k - img.shstr_off + 1]
    ELSE IF k >= img.str_off /\ k < img.str_off + Len(img.str)
         THEN img.str[k - img.str_off + 1]
         ELSE 0

BytesAt(off, size) == [i \in 1..size |-> ByteAt(off + i - 1)]

\* The cnt * 24 bytes at off as a Vec<Elf64_Sym>.
SymsAt(off, cnt) ==
    IF off = img.sym_off /\ cnt <= Len(img.syms)
    THEN SubSeq(img.syms, 1, cnt)
    ELSE [i \in 1..cnt |->
            [st_name |-> 0, st_info |-> 0, st_shndx |-> 0, st_value |-> 0]]

read_u8(p, off, size) == FileReadExact(FileSeek(p, off), size)

read_elf_header(p) == FileReadExact(p, EhdrSize)

read_elf_sections(p, hdr) == read_u8(p, hdr.e_shoff, hdr.e_shnum * ShdrSize)

read_elf_section_raw(p, section) ==
    Try(read_u8(p, section.sh_offset, section.sh_size), LAMBDA r :
        OkRange(r.p, section.sh_offset, section.sh_size))

\* The seek taken from the cursor (SeekFrom::Current) for SeekFrom::Start.
read_elf_section_seek_current(p, section) ==
    Ok(FileSeek(p, p.pos + section.sh_offset))

read_elf_section_seek(p, section) == Ok(FileSeek(p, section.sh_offset))

\* The bound check with > for >=.
read_elf_section_offset_seek_gt(p, section, offset) ==
    IF offset > section.sh_size
    THEN Err(p, "InvalidInput")
    ELSE Ok(FileSeek(p, section.sh_offset + offset))

read_elf_section_offset_seek(p, section, offset) ==
    IF offset >= section.sh_size
    THEN Err(p, "InvalidInput")
    ELSE Ok(FileSeek(p, section.sh_offset + offset))

-----------------------------------------------------------------------------
(* Strings.                                                                *)

\* String::from_utf8 accepts exactly the well-formed UTF-8 sequences.
IsCont(b) == b >= 128 /\ b <= 191

RECURSIVE Utf8From(_, _)
Utf8From(s, i) ==
    IF i > Len(s) THEN TRUE
    ELSE LET b == s[i]
             c(k) == IF i + k <= Len(s) THEN s[i + k] ELSE 0
         IN  IF b < 128 THEN Utf8From(s, i + 1)
             ELSE IF b >= 194 /\ b <= 223
                  THEN IsCont(c(1)) /\ Utf8From(s, i + 2)
             ELSE IF b >= 224 /\ b <= 239
                  THEN /\ IsCont(c(1)) /\ IsCont(c(2))
                       /\ (b = 224 => c(1) >= 160)
                       /\ (b = 237 => c(1) <= 159)
                       /\ Utf8From(s, i + 3)
             ELSE IF b >= 240 /\ b <= 244
                  THEN /\ IsCont(c(1)) /\ IsCont(c(2)) /\ IsCont(c(3))
                       /\ (b = 240 => c(1) >= 144)
                       /\ (b = 244 => c(1) <= 143)
                       /\ Utf8From(s, i + 4)
             ELSE FALSE

from_utf8_ok(s) == Utf8From(s, 1)

\* while strtab[end] != 0 { end += 1 }: the index of the first 0 at or after
\* end, or -1 when the index runs off the slice (the indexing panics).
RECURSIVE ScanNul(_, _)
ScanNul(tab, end) ==
    IF end >= Len(tab) THEN -1
    ELSE IF At(tab, end) = 0 THEN end
    ELSE ScanNul(tab, end + 1)

\* A scan that stops at the end of the slice (what a checked scan would do).
RECURSIVE ScanNulChecked(_, _)
ScanNulChecked(tab, end) ==
    IF end >= Len(tab) THEN Len(tab)
    ELSE IF At(tab, end) = 0 THEN end
    ELSE ScanNulChecked(tab, end + 1)

\* extract_string: "some" with the string, "none", or "panic".
extract_string(tab, off) ==
    IF off >= Len(tab) THEN [kind |-> "none", s |-> <<>>]
    ELSE Let(ScanNul(tab, off), LAMBDA end :
             IF end < 0 THEN [kind |-> "panic", s |-> <<>>]
             ELSE Let(SubSeq(tab, off + 1, end), LAMBDA blk :
                      IF from_utf8_ok(blk) THEN [kind |-> "some", s |-> blk]
                      ELSE [kind |-> "none", s |-> <<>>]))

get_elf_section_name(sect, tab) == extract_string(tab, sect.sh_name)

-----------------------------------------------------------------------------
(* The symbol table.                                                       *)

\* Elf64_Sym::get_type
get_type(sym) == sym.st_info % 16

\* Vec::sort_by_key(|x| x.st_value): a stable sort, here by insertion.  x
\* goes behind every element whose key is not greater.
RECURSIVE InsertByKey(_, _)
InsertByKey(v, x) ==
    IF v = <<>> THEN <<x>>
    ELSE IF v[Len(v)].st_value <= x.st_value THEN Append(v, x)
    ELSE Append(InsertByKey(SubSeq(v, 1, Len(v) - 1), x), v[Len(v)])

\* An insertion that goes in front of the elements of equal key: what an
\* unstable sort may do.
RECURSIVE InsertBeforeEqual(_, _)
InsertBeforeEqual(v, x) ==
    IF v = <<>> THEN <<x>>
    ELSE IF v[Len(v)].st_value < x.st_value THEN Append(v, x)
    ELSE Append(InsertBeforeEqual(SubSeq(v, 1, Len(v) - 1), x), v[Len(v)])

RECURSIVE SortFrom(_, _, _)
SortFrom(v, i, acc) ==
    IF i > Len(v) THEN acc ELSE SortFrom(v, i + 1, InsertByKey(acc, v[i]))

RECURSIVE UnstableSortFrom(_, _, _)
UnstableSortFrom(v, i, acc) ==
    IF i > Len(v) THEN acc
    ELSE UnstableSortFrom(v, i + 1, InsertBeforeEqual(acc, v[i]))

sort_by_key_unstable(v) == UnstableSortFrom(v, 1, <<>>)

sort_by_key_none(v) == v

sort_by_key(v) == SortFrom(v, 1, <<>>)

\* The closure find_symbol hands to the search: the key of a symbol, None
\* for a symbol of another type or an undefined one.
find_symbol_key_nomask(sym, st_type) ==
    IF sym.st_info # st_type \/ sym.st_shndx = SHN_UNDEF THEN None
    ELSE Some(sym.st_value)

find_symbol_key_noundef(sym, st_type) ==
    IF sym.st_info % 16 # st_type THEN None ELSE Some(sym.st_value)

find_symbol_key(sym, st_type) ==
    IF sym.st_info % 16 # st_type \/ sym.st_shndx = SHN_UNDEF THEN None
    ELSE Some(sym.st_value)

\* tools::search_address_opt_key, a binary search with skip-on-none over the
\* window [left, right) of 0-based indexes.  At the midpoint it scans
\* forward, then backward, inside the window for the nearest entry with a
\* key; best is the last entry found whose key is <= address.
RECURSIVE ScanForward(_, _, _, _)
ScanForward(data, st_type, v, right) ==
    IF v >= right THEN -1
    ELSE IF IsSome(find_symbol_key(At(data, v), st_type)) THEN v
    ELSE ScanForward(data, st_type, v + 1, right)

RECURSIVE ScanBackward(_, _, _, _)
ScanBackward(data, st_type, v, left) ==
    IF v < left THEN -1
    ELSE IF IsSome(find_symbol_key(At(data, v), st_type)) THEN v
    ELSE ScanBackward(data, st_type, v - 1, left)

\* The nearest entry with a key: forward from mid, else backward; -1 if none.
NearestKeyed(data, st_type, left, mid, right) ==
    Let(ScanForward(data, st_type, mid, right), LAMBDA fwd :
        IF fwd >= 0 THEN fwd ELSE ScanBackward(data, st_type, mid - 1, left))

RECURSIVE SearchWindow(_, _, _, _, _, _)
SearchWindow(data, address, st_type, left, right, best) ==
    IF left >= right THEN best
    ELSE Let(NearestKeyed(data, st_type, left, (left + right) \div 2, right),
             LAMBDA v :
                 IF v < 0 THEN best
                 ELSE IF Unwrap(find_symbol_key(At(data, v), st_type)) <= address
                 THEN SearchWindow(data, address, st_type, v + 1, right, Some(v))
                 ELSE SearchWindow(data, address, st_type, left,
                                   IF v < (left + right) \div 2 THEN v
                                   ELSE (left + right) \div 2, best))

search_address_opt_key(data, address, st_type) ==
    SearchWindow(data, address, st_type, 0, Len(data), None)

-----------------------------------------------------------------------------
(* Elf64Parser.  A function takes the parser p (the six caches, the cursor *)
(* and the count of reads made so far) and gives a Res.                    *)

\* Elf64Parser::open: no cache is filled, the cursor is at 0.
open ==
    [ehdr |-> None, shdrs |-> None, shstrtab |-> None, symtab |-> None,
     symtab_origin |-> None, strtab |-> None, pos |-> 0, reads |-> 0]

ensure_ehdr(p) ==
    IF IsSome(p.ehdr) THEN Ok(p)
    ELSE Try(read_elf_header(p), LAMBDA r :
             Ok([r.p EXCEPT !.ehdr = Some(EhdrAt(p.pos))]))

ensure_shdrs(p) ==
    Try(ensure_ehdr(p), LAMBDA r0 :
        IF IsSome(r0.p.shdrs) THEN Ok(r0.p)
        ELSE Try(read_elf_sections(r0.p, Unwrap(r0.p.ehdr)), LAMBDA r :
                 Ok([r.p EXCEPT !.shdrs = Some(ShdrsAt(Unwrap(r0.p.ehdr).e_shoff,
                                                      Unwrap(r0.p.ehdr).e_shnum))])))

ensure_shstrtab(p) ==
    Try(ensure_shdrs(p), LAMBDA r0 :
        IF IsSome(r0.p.shstrtab) THEN Ok(r0.p)
        ELSE IF Unwrap(r0.p.ehdr).e_shstrndx >= Len(Unwrap(r0.p.shdrs))
        THEN Panic(r0.p, "index out of bounds")
        ELSE Try(read_elf_section_raw(
                     r0.p, At(Unwrap(r0.p.shdrs), Unwrap(r0.p.ehdr).e_shstrndx)),
                 LAMBDA r : Ok([r.p EXCEPT !.shstrtab = Some(BytesAt(r.num, r.len))])))

get_num_sections(p) ==
    Try(ensure_ehdr(p), LAMBDA r : OkNum(r.p, Unwrap(r.p.ehdr).e_shnum))

check_section_index(p, sect_idx) ==
    Try(get_num_sections(p), LAMBDA r :
        IF r.num <= sect_idx THEN Err(r.p, "InvalidInput") ELSE Ok(r.p))

section_seek(p, sect_idx) ==
    Try(check_section_index(p, sect_idx), LAMBDA r0 :
    Try(ensure_shdrs(r0.p), LAMBDA r1 :
        read_elf_section_seek(r1.p, At(Unwrap(r1.p.shdrs), sect_idx))))

section_offset_seek(p, sect_idx, offset) ==
    Try(check_section_index(p, sect_idx), LAMBDA r0 :
    Try(ensure_shdrs(r0.p), LAMBDA r1 :
        read_elf_section_offset_seek(r1.p, At(Unwrap(r1.p.shdrs), sect_idx), offset)))

read_section_raw(p, sect_idx) ==
    Try(check_section_index(p, sect_idx), LAMBDA r0 :
    Try(ensure_shdrs(r0.p), LAMBDA r1 :
        read_elf_section_raw(r1.p, At(Unwrap(r1.p.shdrs), sect_idx))))

get_section_name(p, sect_idx) ==
    Try(check_section_index(p, sect_idx), LAMBDA r0 :
    Try(ensure_shstrtab(r0.p), LAMBDA r1 :
    Let(get_elf_section_name(At(Unwrap(r1.p.shdrs), sect_idx), Unwrap(r1.p.shstrtab)),
        LAMBDA name :
            IF name.kind = "panic" THEN Panic(r1.p, "index out of bounds")
            ELSE IF name.kind = "none" THEN Err(r1.p, "InvalidData")
            ELSE OkName(r1.p, name.s))))

get_section_size(p, sect_idx) ==
    Try(check_section_index(p, sect_idx), LAMBDA r0 :
    Try(ensure_shdrs(r0.p), LAMBDA r1 :
        OkNum(r1.p, At(Unwrap(r1.p.shdrs), sect_idx).sh_size)))

\* get_section_name(i).unwrap(): an Err panics.
UnwrapResult(r) == IF r.kind = "err" THEN Panic(r.p, "unwrap on Err") ELSE r

\* for i in 0..nsects { if self.get_section_name(i).unwrap() == name ... }
RECURSIVE FindSectionLoop(_, _, _, _)
FindSectionLoop(p, name, i, nsects) ==
    IF i >= nsects THEN Err(p, "NotFound")
    ELSE Try(UnwrapResult(get_section_name(p, i)), LAMBDA r :
             IF r.name = name THEN OkNum(r.p, i)
             ELSE FindSectionLoop(r.p, name, i + 1, nsects))

find_section(p, name) ==
    Try(get_num_sections(p), LAMBDA r : FindSectionLoop(r.p, name, 0, r.num))

\* The file-order table stored before the section's size is checked.
ensure_symtab_early(p) ==
    IF IsSome(p.symtab) THEN Ok(p)
    ELSE Try(find_section(p, DotSymtab), LAMBDA r0 :
         Try(read_section_raw(r0.p, r0.num), LAMBDA r1 :
         Let(SymsAt(r1.num, r1.len \div SymSize), LAMBDA origin :
             IF r1.len % SymSize # 0
             THEN Err([r1.p EXCEPT !.symtab_origin = Some(origin)], "InvalidData")
             ELSE Ok([r1.p EXCEPT !.symtab = Some(sort_by_key(origin)),
                                  !.symtab_origin = Some(origin)]))))

\* The symbol table taken without the check of the section's size.
ensure_symtab_nocheck(p) ==
    IF IsSome(p.symtab) THEN Ok(p)
    ELSE Try(find_section(p, DotSymtab), LAMBDA r0 :
         Try(read_section_raw(r0.p, r0.num), LAMBDA r1 :
             Let(SymsAt(r1.num, r1.len \div SymSize), LAMBDA origin :
                 Ok([r1.p EXCEPT !.symtab = Some(sort_by_key(origin)),
                                 !.symtab_origin = Some(origin)]))))

ensure_symtab(p) ==
    IF IsSome(p.symtab) THEN Ok(p)
    ELSE Try(find_section(p, DotSymtab), LAMBDA r0 :
         Try(read_section_raw(r0.p, r0.num), LAMBDA r1 :
             IF r1.len % SymSize # 0 THEN Err(r1.p, "InvalidData")
             ELSE Let(SymsAt(r1.num, r1.len \div SymSize), LAMBDA origin :
                      Ok([r1.p EXCEPT !.symtab = Some(sort_by_key(origin)),
                                      !.symtab_origin = Some(origin)]))))

\* The string table loaded again on every call.
ensure_strtab_always(p) ==
    Try(find_section(p, DotStrtab), LAMBDA r0 :
    Try(read_section_raw(r0.p, r0.num), LAMBDA r1 :
        Ok([r1.p EXCEPT !.strtab = Some(BytesAt(r1.num, r1.len))])))

ensure_strtab(p) ==
    IF IsSome(p.strtab) THEN Ok(p)
    ELSE Try(find_section(p, DotStrtab), LAMBDA r0 :
         Try(read_section_raw(r0.p, r0.num), LAMBDA r1 :
             Ok([r1.p EXCEPT !.strtab = Some(BytesAt(r1.num, r1.len))])))

\* match extract_string(strtab, sym.st_name) { Some(name) => .., None => Err }
SymbolName(p, sym, value) ==
    Let(extract_string(Unwrap(p.strtab), sym.st_name), LAMBDA name :
        IF name.kind = "panic" THEN Panic(p, "index out of bounds")
        ELSE IF name.kind = "none" THEN Err(p, "InvalidData")
        ELSE OkNameNum(p, name.s, value))

find_symbol(p, address, st_type) ==
    Try(ensure_symtab(p), LAMBDA r0 :
    Try(ensure_strtab(r0.p), LAMBDA r1 :
    Let(search_address_opt_key(Unwrap(r1.p.symtab), address, st_type), LAMBDA idx_r :
        IF IsNone(idx_r) THEN Err(r1.p, "NotFound")
        ELSE Let(At(Unwrap(r1.p.symtab), Unwrap(idx_r)), LAMBDA sym :
                 SymbolName(r1.p, sym, sym.st_value)))))

get_num_symbols(p) ==
    Try(ensure_symtab(p), LAMBDA r : OkNum(r.p, Len(Unwrap(r.p.symtab))))

get_symbol(p, idx) ==
    Try(ensure_symtab(p), LAMBDA r :
        IF idx >= Len(Unwrap(r.p.symtab)) THEN Panic(r.p, "index out of bounds")
        ELSE OkSym(r.p, At(Unwrap(r.p.symtab), idx)))

get_symbol_origin(p, idx) ==
    Try(ensure_symtab(p), LAMBDA r :
        IF idx >= Len(Unwrap(r.p.symtab_origin)) THEN Panic(r.p, "index out of bounds")
        ELSE OkSym(r.p, At(Unwrap(r.p.symtab_origin), idx)))

get_symbol_name(p, idx) ==
    Try(get_symbol(p, idx), LAMBDA r :
        IF IsNone(r.p.strtab) THEN Panic(r.p, "unwrap on None")
        ELSE SymbolName(r.p, Unwrap(r.sym), 0))

get_all_symbols(p) ==
    Try(ensure_symtab(p), LAMBDA r : OkNum(r.p, Len(Unwrap(r.p.symtab))))

read_raw(p, n) == Try(FileReadExact(p, n), LAMBDA r : OkRange(r.p, p.pos, n))

-----------------------------------------------------------------------------
(* Files.  A file is laid out as: the header (0..63), the program header   *)
(* area (64..127), .shstrtab's bytes, .strtab's bytes, the symbol records  *)
(* (24 bytes each, plus pad stray bytes), and the section header table at  *)
(* e_shoff.  A section header names the region of its role.                *)

Sec(name, role) == [name |-> name, role |-> role]
Sym(name, info, shndx, value) ==
    [st_name |-> name, st_info |-> info, st_shndx |-> shndx, st_value |-> value]

\* "\0.symtab\0.strtab\0.shstrtab\0\xff\0": "" at 0, ".symtab" at 1, ".strtab"
\* at 9, ".shstrtab" at 17, a byte that is no UTF-8 at 27.
ShStrBytes ==
    <<0>> \o DotSymtab \o <<0>> \o DotStrtab \o <<0>> \o DotShstrtab \o <<0, 255, 0>>

MkImage(secs, str, syms, pad, shnum, shstrndx, cut) ==
    LET shstr_off == EhdrSize + 64
        str_off == shstr_off + Len(ShStrBytes)
        sym_off == str_off + Len(str)
        sym_size == SymSize * Len(syms) + pad
        e_shoff == sym_off + sym_size
        hdr(s) ==
            [sh_name |-> s.name,
             sh_offset |-> CASE s.role = "shstr" -> shstr_off
                             [] s.role = "str" -> str_off
                             [] s.role = "sym" -> sym_off
                             [] OTHER -> 0,
             sh_size |-> CASE s.role = "shstr" -> Len(ShStrBytes)
                           [] s.role = "str" -> Len(str)
                           [] s.role = "sym" -> sym_size
                           [] OTHER -> 0]
        full == e_shoff + ShdrSize * Len(secs)
    IN  [ehdr |-> [e_shoff |-> e_shoff, e_shnum |-> shnum, e_shstrndx |-> shstrndx],
         junk |-> [e_shoff |-> e_shoff, e_shnum |-> 0, e_shstrndx |-> 0],
         shdrs |-> [i \in 1..Len(secs) |-> hdr(secs[i])],
         shstr_off |-> shstr_off, shstr |-> ShStrBytes,
         str_off |-> str_off, str |-> str,
         sym_off |-> sym_off, syms |-> syms,
         flen |-> IF cut >= full THEN 0 ELSE full - cut]

StdSecs == <<Sec(0, "null"), Sec(1, "sym"), Sec(9, "str"), Sec(17, "shstr")>>

\* "\0a\0b\0"
StdStr == <<0, 97, 0, 98, 0>>

StdSyms == <<Sym(3, 18, 1, 2), Sym(1, 2, 1, 2), Sym(3, 1, 0, 1)>>

\* The files of the parser family: a well-formed one, and one for each way
\* the untrusted fields can be off.
Images ==
    { MkImage(StdSecs, StdStr, StdSyms, 0, 4, 3, 0),
      \* a .symtab whose size is no multiple of 24
      MkImage(StdSecs, StdStr, StdSyms, 8, 4, 3, 0),
      \* an empty .symtab
      MkImage(StdSecs, StdStr, <<>>, 0, 4, 3, 0),
      \* no .strtab, no .symtab
      MkImage(<<Sec(0, "null"), Sec(1, "sym"), Sec(0, "str"), Sec(17, "shstr")>>,
              StdStr, StdSyms, 0, 4, 3, 0),
      MkImage(<<Sec(0, "null"), Sec(0, "sym"), Sec(9, "str"), Sec(17, "shstr")>>,
              StdStr, StdSyms, 0, 4, 3, 0),
      \* two sections named .strtab
      MkImage(<<Sec(0, "null"), Sec(9, "str"), Sec(1, "sym"), Sec(9, "shstr"),
                Sec(17, "shstr")>>, StdStr, StdSyms, 0, 5, 4, 0),
      \* an sh_name out of bounds, or no UTF-8: in the first section, in the last
      MkImage(<<Sec(40, "null"), Sec(1, "sym"), Sec(9, "str"), Sec(17, "shstr")>>,
              StdStr, StdSyms, 0, 4, 3, 0),
      MkImage(<<Sec(27, "null"), Sec(1, "sym"), Sec(9, "str"), Sec(17, "shstr")>>,
              StdStr, StdSyms, 0, 4, 3, 0),
      MkImage(<<Sec(0, "null"), Sec(1, "sym"), Sec(9, "str"), Sec(27, "shstr")>>,
              StdStr, StdSyms, 0, 4, 3, 0),
      \* e_shstrndx beyond the table, e_shnum = 0
      MkImage(StdSecs, StdStr, StdSyms, 0, 4, 4, 0),
      MkImage(StdSecs, StdStr, StdSyms, 0, 0, 0, 0),
      \* a .strtab without its last 0, a name offset beyond .strtab
      MkImage(StdSecs, <<0, 97, 0, 98>>, StdSyms, 0, 4, 3, 0),
      MkImage(StdSecs, <<0, 97, 0>>, StdSyms, 0, 4, 3, 0),
      \* a file cut short: in the section header table, in the header
      MkImage(StdSecs, StdStr, StdSyms, 0, 4, 3, 64),
      MkImage(StdSecs, StdStr, StdSyms, 0, 4, 3, 100000) }

-----------------------------------------------------------------------------
(* The state machine: one action per public operation of Elf64Parser.      *)

\* The parser as the functions above take it.
Parser ==
    [ehdr |-> ehdr, shdrs |-> shdrs, shstrtab |-> shstrtab, symtab |-> symtab,
     symtab_origin |-> symtab_origin, strtab |-> strtab, pos |-> pos,
     reads |-> 0]

Ret(op, a1, a2, sarg, r) ==
    [op |-> op, a1 |-> a1, a2 |-> a2, sarg |-> sarg,
     kind |-> r.kind, err |-> r.err, num |-> r.num, len |-> r.len,
     name |-> r.name, sym |-> r.sym, reads |-> r.p.reads]

\* A call returns r.  After a panic nothing more is called.
Call(op, a1, a2, sarg, r) ==
    /\ ret.kind # "panic"
    /\ ehdr' = r.p.ehdr
    /\ shdrs' = r.p.shdrs
    /\ shstrtab' = r.p.shstrtab
    /\ symtab' = r.p.symtab
    /\ symtab_origin' = r.p.symtab_origin
    /\ strtab' = r.p.strtab
    /\ pos' = r.p.pos
    /\ ret' = Ret(op, a1, a2, sarg, r)
    /\ UNCHANGED <<img, reasons, converted>>

InitWith(files) ==
    /\ img \in files
    /\ ehdr = open.ehdr
    /\ shdrs = open.shdrs
    /\ shstrtab = open.shstrtab
    /\ symtab = open.symtab
    /\ symtab_origin = open.symtab_origin
    /\ strtab = open.strtab
    /\ pos = open.pos
    /\ ret = Ret("open", 0, 0, <<>>, Ok(open))
    /\ reasons = <<>>
    /\ converted = <<>>

\* The inputs: section indexes up to one past the table, offsets around the
\* section's size, symbol indexes up to one past the table.
SectIdxs == 0..Len(img.shdrs)
Offsets(i) ==
    {0} \cup (IF i < Len(img.shdrs)
              THEN {o \in {At(img.shdrs, i).sh_size - 1, At(img.shdrs, i).sh_size} :
                      o >= 0}
              ELSE {})
SymIdxs == 0..Len(img.syms)
Addrs == 0..MaxAddr
Types == {STT_OBJECT, STT_FUNC}
SectNames == {DotSymtab, DotStrtab, DotShstrtab, DotText}
RawLens == {8}

GetNumSections == Call("get_num_sections", 0, 0, <<>>, get_num_sections(Parser))

GetSectionName ==
    \E i \in SectIdxs : Call("get_section_name", i, 0, <<>>, get_section_name(Parser, i))

GetSectionSize ==
    \E i \in SectIdxs : Call("get_section_size", i, 0, <<>>, get_section_size(Parser, i))

ReadSectionRaw ==
    \E i \in SectIdxs : Call("read_section_raw", i, 0, <<>>, read_section_raw(Parser, i))

FindSection ==
    \E n \in SectNames : Call("find_section", 0, 0, n, find_section(Parser, n))

SectionSeek ==
    \E i \in SectIdxs : Call("section_seek", i, 0, <<>>, section_seek(Parser, i))

SectionOffsetSeek ==
    \E i \in SectIdxs : \E o \in Offsets(i) :
        Call("section_offset_seek", i, o, <<>>, section_offset_seek(Parser, i, o))

GetNumSymbols == Call("get_num_symbols", 0, 0, <<>>, get_num_symbols(Parser))

GetSymbol ==
    \E i \in SymIdxs : Call("get_symbol", i, 0, <<>>, get_symbol(Parser, i))

GetSymbolOrigin ==
    \E i \in SymIdxs : Call("get_symbol_origin", i, 0, <<>>, get_symbol_origin(Parser, i))

GetSymbolName ==
    \E i \in SymIdxs : Call("get_symbol_name", i, 0, <<>>, get_symbol_name(Parser, i))

GetAllSymbols == Call("get_all_symbols", 0, 0, <<>>, get_all_symbols(Parser))

FindSymbol ==
    \E a \in Addrs : \E t \in Types :
        Call("find_symbol", a, t, <<>>, find_symbol(Parser, a, t))

\* read_raw reads at the cursor; its caller has positioned the cursor with a
\* seek of this parser (the documented use), and reads once per seek here.
ReadRaw ==
    /\ ret.op \in {"section_seek", "section_offset_seek"}
    /\ ret.kind = "ok"
    /\ \E n \in RawLens : Call("read_raw", n, 0, <<>>, read_raw(Parser, n))

Init == InitWith(Images)

Next ==
    \/ GetNumSections
    \/ GetSectionName
    \/ GetSectionSize
    \/ ReadSectionRaw
    \/ FindSection
    \/ SectionSeek
    \/ SectionOffsetSeek
    \/ GetNumSymbols
    \/ GetSymbol
    \/ GetSymbolOrigin
    \/ GetSymbolName
    \/ GetAllSymbols
    \/ FindSymbol
    \/ ReadRaw

Spec == Init /\ [][Next]_vars

-----------------------------------------------------------------------------
(* The symbol family: well-formed files over every symbol table of up to   *)
(* MaxSyms symbols, and the operations on symbols.                         *)

\* "a" and "b" at one address, "b" with a binding in st_info; at the next
\* address "b", an undefined symbol, and a symbol whose name offset is beyond
\* .strtab.
SymKinds ==
    { Sym(1, 2, 1, 1), Sym(3, 18, 1, 1), Sym(3, 2, 1, 2), Sym(3, 2, 0, 2),
      Sym(7, 2, 1, 2) }

SymTables == UNION {[1..n -> SymKinds] : n \in 0..MaxSyms}

ImagesSym == {MkImage(StdSecs, StdStr, syms, 0, 4, 3, 0) : syms \in SymTables}

InitSym == InitWith(ImagesSym)

NextSym ==
    \/ GetNumSymbols
    \/ GetSymbol
    \/ GetSymbolOrigin
    \/ GetSymbolName
    \/ GetAllSymbols
    \/ FindSymbol

SpecSym == InitSym /\ [][NextSym]_vars

(* The string family: well-formed files over every .strtab of up to MaxStr *)
(* bytes, with one function symbol whose name is at any offset up to one   *)
(* past the table.                                                         *)

\* NUL, "a", the two bytes of a two-byte UTF-8 sequence, and a byte that no
\* UTF-8 sequence holds.
StrBytes == {0, 97, 195, 169, 255}

StrTables == UNION {[1..n -> StrBytes] : n \in 0..MaxStr}

ImagesStr ==
    {MkImage(StdSecs, str, <<Sym(o, 2, 1, 1)>>, 0, 4, 3, 0) :
        str \in StrTables, o \in 0..MaxStr}

InitStr == InitWith(ImagesStr)

NextStr ==
    \/ GetSymbolName
    \/ FindSymbol

SpecStr == InitStr /\ [][NextStr]_vars

-----------------------------------------------------------------------------
(* The cursor family: read_raw at any time, also before the header is      *)
(* loaded, among the seeks and the lookups.                                *)

\* The buffers of read_raw in this family: of the size of a header.
HeaderLens == {EhdrSize}

\* read_raw(buf) wherever the cursor is.
ReadRawAnywhere ==
    \E n \in HeaderLens : Call("read_raw", n, 0, <<>>, read_raw(Parser, n))

ImagesRaw ==
    { MkImage(StdSecs, StdStr, StdSyms, 0, 4, 3, 0) }

InitRaw == InitWith(ImagesRaw)

NextRaw ==
    \/ ReadRawAnywhere
    \/ SectionSeek
    \/ GetNumSections
    \/ GetSectionName
    \/ GetSectionSize
    \/ FindSection
    \/ GetNumSymbols
    \/ GetSymbol
    \/ GetSymbolOrigin
    \/ GetSymbolName
    \/ FindSymbol

SpecRaw == InitRaw /\ [][NextRaw]_vars

-----------------------------------------------------------------------------
(* The reasons of src/src/symbolize/mod.rs.  A value of an enum is the     *)
(* enum's name and the variant's.                                          *)

MaxReasons == 4     \* reasons converted in a row

\* Reason, its variants as listed.
ReasonVariants ==
    <<"Unmapped", "InvalidFileOffset", "MissingComponent", "MissingSyms",
      "Unsupported", "UnknownAddr">>

Reason(v) == [enum |-> "symbolize::Reason", variant |-> v]

\* normalize::Reason, with the variants the match of Reason::from lists.
NormalizeReason(v) == [enum |-> "normalize::Reason", variant |-> v]

NormalizeReasons ==
    {NormalizeReason("Unmapped"), NormalizeReason("MissingComponent"),
     NormalizeReason("Unsupported")}

\* Two arms with their right sides exchanged.
Reason_from_swapped(reason) ==
    CASE reason = NormalizeReason("Unmapped") -> Reason("Unmapped")
      [] reason = NormalizeReason("MissingComponent") -> Reason("Unsupported")
      [] reason = NormalizeReason("Unsupported") -> Reason("MissingComponent")

\* Two arms with one right side.
Reason_from_collapsed(reason) ==
    CASE reason = NormalizeReason("Unmapped") -> Reason("Unmapped")
      [] reason = NormalizeReason("MissingComponent") -> Reason("MissingComponent")
      [] reason = NormalizeReason("Unsupported") -> Reason("MissingComponent")

\* impl From<normalize::Reason> for Reason
Reason_from(reason) ==
    CASE reason = NormalizeReason("Unmapped") -> Reason("Unmapped")
      [] reason = NormalizeReason("MissingComponent") -> Reason("MissingComponent")
      [] reason = NormalizeReason("Unsupported") -> Reason("Unsupported")

\* The sequences of 1..MaxReasons reasons.
ReasonSeqs ==
    UNION {[1..n -> NormalizeReasons] : n \in 1..MaxReasons}

InitReason ==
    /\ img = MkImage(StdSecs, StdStr, StdSyms, 0, 4, 3, 0)
    /\ ehdr = open.ehdr
    /\ shdrs = open.shdrs
    /\ shstrtab = open.shstrtab
    /\ symtab = open.symtab
    /\ symtab_origin = open.symtab_origin
    /\ strtab = open.strtab
    /\ pos = open.pos
    /\ ret = Ret("open", 0, 0, <<>>, Ok(open))
    /\ reasons \in ReasonSeqs
    /\ converted = <<>>

\* Reason::from(reasons[k]) for the next k.
ReasonFrom ==
    /\ Len(converted) < Len(reasons)
    /\ converted' = Append(converted, Reason_from(reasons[Len(converted) + 1]))
    /\ UNCHANGED <<img, ehdr, shdrs, shstrtab, symtab, symtab_origin, strtab,
                   pos, ret, reasons>>

NextReason == ReasonFrom

SpecReason == InitReason /\ [][NextReason]_vars

-----------------------------------------------------------------------------
(* What the claims speak of, stated apart from the functions above.        *)

\* A symbol passes the filter of find_symbol(_, t).
Matches(sym, t) == sym.st_info % 16 = t /\ sym.st_shndx # SHN_UNDEF

\* The bytes of tab from offset o up to the next 0 (or the end of tab).
StringAt(tab, o) == SubSeq(tab, o + 1, ScanNulChecked(tab, o))

\* There is a 0 at or after offset o.
Terminated(tab, o) == \E k \in o..(Len(tab) - 1) : At(tab, k) = 0

SetMax(S) == CHOOSE m \in S : \A k \in S : k <= m

\* The entries of v whose st_value is x, in their order.
WithValue(v, x) == SelectSeq(v, LAMBDA e : e.st_value = x)

SymtabLoaded == IsSome(symtab) /\ IsSome(strtab)

-----------------------------------------------------------------------------
(* C1: if find_symbol(a, t) returns (name, v) then v <= a, v is the        *)
(* st_value of a symbol of type t with st_shndx != SHN_UNDEF, no such      *)
(* symbol has a value in (v, a], and name is the string at that symbol's   *)
(* st_name; if no such symbol has a value <= a, find_symbol fails with     *)
(* NotFound.                                                               *)
C1_FindSymbolContract ==
    (ret.op = "find_symbol" /\ SymtabLoaded) =>
        LET a == ret.a1
            t == ret.a2
            file == img.syms
            cands == {k \in 1..Len(file) :
                        Matches(file[k], t) /\ file[k].st_value <= a}
        IN  /\ ret.kind = "ok" =>
                \E k \in cands :
                    /\ file[k].st_value = ret.num
                    /\ ret.num <= a
                    /\ \A j \in cands : file[j].st_value <= ret.num
                    /\ file[k].st_name < Len(img.str)
                    /\ ret.name = StringAt(img.str, file[k].st_name)
            /\ cands = {} => (ret.kind = "err" /\ ret.err = "NotFound")

\* A lookup that passes over a filtered symbol lying between the result and
\* the address.
C1_Witness ==
    /\ ret.op = "find_symbol" /\ ret.kind = "ok" /\ ret.num < ret.a1
    /\ \E k \in 1..Len(img.syms) :
        /\ ~Matches(img.syms[k], ret.a2)
        /\ img.syms[k].st_value > ret.num
        /\ img.syms[k].st_value <= ret.a1

(* C2, as stated: for every entry s at index i of the sorted table with    *)
(* type STT_FUNC and st_shndx != SHN_UNDEF whose name get_symbol_name(i)   *)
(* extracts, find_symbol(s.st_value, STT_FUNC) succeeds and returns        *)
(* (get_symbol_name(i), s.st_value), also when other symbols share         *)
(* s.st_value.                                                             *)
C2_RoundTripEveryEntry ==
    (ret.op = "find_symbol" /\ ret.a2 = STT_FUNC /\ SymtabLoaded) =>
        \A i \in 0..(Len(Unwrap(symtab)) - 1) :
            (/\ Matches(At(Unwrap(symtab), i), STT_FUNC)
             /\ At(Unwrap(symtab), i).st_value = ret.a1
             /\ get_symbol_name(Parser, i).kind = "ok")
            => /\ ret.kind = "ok"
               /\ ret.num = ret.a1
               /\ ret.name = get_symbol_name(Parser, i).name

(* C2, amended: the round trip holds for the entry s at index i that is    *)
(* the last of the STT_FUNC, non-UNDEF entries with its st_value in the    *)
(* sorted table, when get_symbol_name(i) extracts a name.                  *)
C2_RoundTripLastEntry ==
    (ret.op = "find_symbol" /\ ret.a2 = STT_FUNC /\ SymtabLoaded) =>
        \A i \in 0..(Len(Unwrap(symtab)) - 1) :
            (/\ Matches(At(Unwrap(symtab), i), STT_FUNC)
             /\ At(Unwrap(symtab), i).st_value = ret.a1
             /\ \A j \in (i + 1)..(Len(Unwrap(symtab)) - 1) :
                    ~(/\ Matches(At(Unwrap(symtab), j), STT_FUNC)
                      /\ At(Unwrap(symtab), j).st_value = ret.a1)
             /\ get_symbol_name(Parser, i).kind = "ok")
            => /\ ret.kind = "ok"
               /\ ret.num = ret.a1
               /\ ret.name = get_symbol_name(Parser, i).name

\* A round trip through an address that two function symbols of different
\* names share.
C2_Witness ==
    /\ ret.op = "find_symbol" /\ ret.a2 = STT_FUNC /\ ret.kind = "ok"
    /\ ret.num = ret.a1
    /\ \E i, j \in 1..Len(Unwrap(symtab)) :
        /\ i < j
        /\ Matches(Unwrap(symtab)[i], STT_FUNC)
        /\ Matches(Unwrap(symtab)[j], STT_FUNC)
        /\ Unwrap(symtab)[i].st_value = ret.a1
        /\ Unwrap(symtab)[j].st_value = ret.a1
        /\ Unwrap(symtab)[i].st_name # Unwrap(symtab)[j].st_name

(* C3: when several symbols that pass the filter share the greatest        *)
(* st_value <= a, find_symbol(a, t) returns the name of the one with the   *)
(* highest file-order index.                                               *)
C3_TieBreakLastInFileOrder ==
    (ret.op = "find_symbol" /\ ret.kind = "ok") =>
        LET file == img.syms
            tied == {k \in 1..Len(file) :
                       Matches(file[k], ret.a2) /\ file[k].st_value = ret.num}
        IN  /\ tied # {}
            /\ \A k \in 1..Len(file) :
                   (Matches(file[k], ret.a2) /\ file[k].st_value <= ret.a1)
                   => file[k].st_value <= ret.num
            /\ ret.name = StringAt(img.str, file[SetMax(tied)].st_name)

\* A tie in which the file has the symbol of another name first.
C3_Witness ==
    /\ ret.op = "find_symbol" /\ ret.kind = "ok"
    /\ \E k, l \in 1..Len(img.syms) :
        /\ k < l
        /\ Matches(img.syms[k], ret.a2) /\ Matches(img.syms[l], ret.a2)
        /\ img.syms[k].st_value = ret.num /\ img.syms[l].st_value = ret.num
        /\ StringAt(img.str, img.syms[k].st_name) # ret.name
        /\ StringAt(img.str, img.syms[l].st_name) = ret.name

(* C4: after the symbol table is loaded, the sorted view is a permutation  *)
(* of the file-order view of the same length, non-decreasing in st_value,  *)
(* with entries of equal st_value in ascending file order; the file-order  *)
(* view keeps the order of the .symtab section.                            *)
C4_SortedViewStable ==
    IsSome(symtab) =>
        /\ IsSome(symtab_origin)
        /\ Unwrap(symtab_origin) = img.syms
        /\ Len(Unwrap(symtab)) = Len(Unwrap(symtab_origin))
        /\ \A i \in 1..(Len(Unwrap(symtab)) - 1) :
               Unwrap(symtab)[i].st_value <= Unwrap(symtab)[i + 1].st_value
        /\ \A k \in 1..Len(img.syms) :
               WithValue(Unwrap(symtab), img.syms[k].st_value)
                   = WithValue(Unwrap(symtab_origin), img.syms[k].st_value)

\* A loaded table that the sort reordered and that holds two different
\* symbols of one st_value.
C4_Witness ==
    /\ IsSome(symtab)
    /\ Unwrap(symtab) # Unwrap(symtab_origin)
    /\ \E i, j \in 1..Len(Unwrap(symtab)) :
        /\ i < j
        /\ Unwrap(symtab)[i].st_value = Unwrap(symtab)[j].st_value
        /\ Unwrap(symtab)[i] # Unwrap(symtab)[j]

(* C5: over any sequence of operations, a populated symtab cache comes     *)
(* with a populated strtab cache, so that get_symbol_name finds a loaded   *)
(* string table whatever was called before it.                             *)
C5_SymtabFillsStrtab ==
    /\ IsSome(symtab) => IsSome(strtab)
    /\ ret.op = "get_symbol_name" =>
           ~(ret.kind = "panic" /\ ret.err = "unwrap on None")

(* C6: for every string table and every name offset o, get_symbol_name of  *)
(* a symbol with st_name = o returns the bytes from o up to the next 0     *)
(* when o < len and those bytes are valid UTF-8, and fails with            *)
(* InvalidData otherwise; with no 0 at or after o the outcome is still a   *)
(* string or an error.                                                     *)
C6_NameExtractionTotal ==
    (/\ ret.op = "get_symbol_name"
     /\ IsSome(symtab) /\ IsSome(strtab)
     /\ ret.a1 < Len(Unwrap(symtab)))
    => LET o == At(Unwrap(symtab), ret.a1).st_name
           tab == img.str
       IN  /\ ret.kind \in {"ok", "err"}
           /\ Terminated(tab, o) =>
                  IF from_utf8_ok(StringAt(tab, o))
                  THEN ret.kind = "ok" /\ ret.name = StringAt(tab, o)
                  ELSE ret.kind = "err" /\ ret.err = "InvalidData"
           /\ o >= Len(tab) => (ret.kind = "err" /\ ret.err = "InvalidData")

\* Section i of the file has the name `name`.
SectionNamed(i, name) ==
    /\ At(img.shdrs, i).sh_name < Len(img.shstr)
    /\ StringAt(img.shstr, At(img.shdrs, i).sh_name) = name

SetMin(S) == CHOOSE m \in S : \A k \in S : m <= k

(* C7: find_section(name) returns the smallest index below num_sections() *)
(* of a section with that name, NotFound when there is none, or an error   *)
(* handed on, and nothing else, also when a section scanned before the     *)
(* match has an sh_name out of bounds or that is no UTF-8.                 *)
C7_FindSectionFirstMatch ==
    (ret.op = "find_section" /\ IsSome(shstrtab)) =>
        LET hits == {i \in 0..(img.ehdr.e_shnum - 1) : SectionNamed(i, ret.sarg)}
        IN  /\ ret.kind \in {"ok", "err"}
            /\ ret.kind = "ok" => (hits # {} /\ ret.num = SetMin(hits))
            /\ (ret.kind = "err" /\ ret.err = "NotFound") => hits = {}
            /\ (ret.kind = "err" /\ ret.err # "NotFound") =>
                   \E i \in 0..(img.ehdr.e_shnum - 1) :
                       ~ \E n \in SectNames \cup {<<>>} : SectionNamed(i, n)
\* The header, and for an index in the table the section headers, are
\* loaded after the step.
HeadersLoadedAfter(i) ==
    /\ IsSome(ehdr')
    /\ i < img.ehdr.e_shnum => IsSome(shdrs')

\* The caches section_offset_seek(i, _) consults were loaded before the step.
HeadersLoadedBefore(i) ==
    /\ IsSome(ehdr)
    /\ i < img.ehdr.e_shnum => IsSome(shdrs)

OffsetSeekFails(i, o) ==
    i >= img.ehdr.e_shnum \/ o >= At(img.shdrs, i).sh_size

(* C8, as stated: section_offset_seek(i, o) fails with InvalidInput when   *)
(* o >= sh_size of section i and when i >= num_sections(), and leaves the  *)
(* cursor where it was in both cases; when i < num_sections() and          *)
(* o < sh_size the cursor ends at sh_offset(i) + o.                        *)
C8_SeekFailureKeepsCursor ==
    [][(ret'.op = "section_offset_seek" /\ HeadersLoadedAfter(ret'.a1)) =>
          IF OffsetSeekFails(ret'.a1, ret'.a2)
          THEN /\ ret'.kind = "err" /\ ret'.err = "InvalidInput"
               /\ pos' = pos
          ELSE /\ ret'.kind = "ok"
               /\ pos' = At(img.shdrs, ret'.a1).sh_offset + ret'.a2]_vars

(* C8, amended: the same, but the cursor is left where it was in the two   *)
(* failure cases when the header (and for i < num_sections() the section   *)
(* headers) were cached before the call; a call that loads them moves it.  *)
C8_SeekFailureKeepsCursorWhenCached ==
    [][(ret'.op = "section_offset_seek" /\ HeadersLoadedAfter(ret'.a1)) =>
          IF OffsetSeekFails(ret'.a1, ret'.a2)
          THEN /\ ret'.kind = "err" /\ ret'.err = "InvalidInput"
               /\ HeadersLoadedBefore(ret'.a1) => pos' = pos
          ELSE /\ ret'.kind = "ok"
               /\ pos' = At(img.shdrs, ret'.a1).sh_offset + ret'.a2]_vars

\* A seek to o = sh_size of a section of positive size that failed without
\* touching the file, the cursor being inside the file from an earlier seek.
C8_Witness ==
    /\ ret.op = "section_offset_seek"
    /\ ret.kind = "err" /\ ret.err = "InvalidInput"
    /\ ret.reads = 0
    /\ ret.a1 < img.ehdr.e_shnum
    /\ ret.a2 = At(img.shdrs, ret.a1).sh_size
    /\ ret.a2 > 0
    /\ pos > 0 /\ pos # EhdrSize
    /\ pos # img.ehdr.e_shoff + ShdrSize * img.ehdr.e_shnum

\* The operations that need the symbol table.
SymtabOps ==
    {"get_num_symbols", "get_symbol", "get_symbol_origin", "get_all_symbols",
     "find_symbol"}

\* The sections of the file named .symtab.
SymtabSections == {i \in 0..(img.ehdr.e_shnum - 1) : SectionNamed(i, DotSymtab)}

\* The file is whole, its section names can be read up to the first .symtab,
\* and the size of that section is no multiple of the symbol record size.
SymtabSizeOff ==
    /\ img.flen >= img.ehdr.e_shoff + ShdrSize * img.ehdr.e_shnum
    /\ img.ehdr.e_shstrndx < img.ehdr.e_shnum
    /\ SymtabSections # {}
    /\ \A j \in 0..(SetMin(SymtabSections) - 1) :
           At(img.shdrs, j).sh_name < Len(img.shstr)
           /\ from_utf8_ok(StringAt(img.shstr, At(img.shdrs, j).sh_name))
    /\ At(img.shdrs, SetMin(SymtabSections)).sh_size % SymSize # 0

(* C9: when the size of the .symtab section is no multiple of 24, every    *)
(* operation that needs the symbol table fails with InvalidData, and the   *)
(* symtab and symtab_origin caches are never populated.                    *)
C9_BadSymtabSizeRejected ==
    SymtabSizeOff =>
        /\ IsNone(symtab) /\ IsNone(symtab_origin)
        /\ ret.op \in SymtabOps => (ret.kind = "err" /\ ret.err = "InvalidData")

\* A later call that fails the same way: the header, the section headers and
\* the section names are cached by now, the call reads .symtab alone.
C9_Witness ==
    /\ SymtabSizeOff
    /\ ret.op = "find_symbol"
    /\ ret.kind = "err" /\ ret.err = "InvalidData"
    /\ ret.reads = 1

\* The caches the operation op consults are all populated.
Populated(op) ==
    CASE op = "get_num_sections" -> IsSome(ehdr)
      [] op \in {"get_section_size", "section_seek", "section_offset_seek"} ->
            IsSome(ehdr) /\ IsSome(shdrs)
      [] op \in {"get_section_name", "find_section"} ->
            IsSome(ehdr) /\ IsSome(shdrs) /\ IsSome(shstrtab)
      [] op \in {"get_num_symbols", "get_symbol", "get_symbol_origin",
                 "get_all_symbols"} -> IsSome(symtab)
      [] op \in {"find_symbol", "get_symbol_name"} ->
            IsSome(symtab) /\ IsSome(strtab)
      [] OTHER -> FALSE

\* What a call returned, apart from the count of its reads.
Outcome(r) == <<r.kind, r.err, r.num, r.len, r.name, r.sym>>

(* C10: a populated cache is never cleared or changed by a later           *)
(* operation; an operation whose caches are populated does not read the    *)
(* file, and returns what it returned before when it is repeated.          *)
C10_CachesWrittenOnce ==
    [][/\ IsSome(ehdr) => ehdr' = ehdr
       /\ IsSome(shdrs) => shdrs' = shdrs
       /\ IsSome(shstrtab) => shstrtab' = shstrtab
       /\ IsSome(symtab) => symtab' = symtab
       /\ IsSome(symtab_origin) => symtab_origin' = symtab_origin
       /\ IsSome(strtab) => strtab' = strtab
       /\ Populated(ret'.op) =>
              /\ ret'.reads = 0
              /\ caches' = caches
              /\ (ret.op = ret'.op /\ ret.a1 = ret'.a1 /\ ret.a2 = ret'.a2
                  /\ ret.sarg = ret'.sarg) => Outcome(ret') = Outcome(ret)]_vars

\* A symbol found a second time, from the caches alone.
C10_Witness ==
    /\ ret.op = "find_symbol" /\ ret.kind = "ok"
    /\ ret.reads = 0
    /\ pos > EhdrSize

(* C11: get_symbol(i) and get_symbol_origin(i) return the i-th entry of    *)
(* the sorted / file-order table for i < get_num_symbols(), and an         *)
(* InvalidInput error, no abort, for i >= get_num_symbols().               *)
C11_SymbolIndexChecked ==
    (ret.op \in {"get_symbol", "get_symbol_origin"} /\ IsSome(symtab)) =>
        LET table == IF ret.op = "get_symbol" THEN Unwrap(symtab)
                     ELSE Unwrap(symtab_origin)
        IN  IF ret.a1 < Len(table)
            THEN ret.kind = "ok" /\ ret.sym = Some(At(table, ret.a1))
            ELSE ret.kind = "err" /\ ret.err = "InvalidInput"

(* C12: for every header, also one with e_shstrndx >= e_shnum, loading the *)
(* section-header string table from get_section_name or find_section ends  *)
(* in a result or an error, never in an index out of the range of the      *)
(* section-header vector.                                                  *)
C12_ShstrndxChecked ==
    (ret.op \in {"get_section_name", "find_section"} /\ IsNone(shstrtab)) =>
        ~(ret.kind = "panic" /\ ret.err = "index out of bounds")

(* C13: whenever the header loads, get_num_sections() returns a value of   *)
(* at least 1.                                                             *)
C13_AtLeastOneSection ==
    (ret.op = "get_num_sections" /\ ret.kind = "ok") => ret.num >= 1

\* The variants of the values of a sequence or set of enum values.
VariantsOf(vs) == {v.variant : v \in vs}

Converted == {converted[k] : k \in 1..Len(converted)}

(* C14: Reason::from gives, for every normalization reason, the            *)
(* symbolization reason of the same name (Unmapped, MissingComponent,      *)
(* Unsupported), and different reasons for different inputs.               *)
C14_ReasonFromSameName ==
    /\ \A k \in 1..Len(converted) :
           /\ converted[k] \in {Reason(ReasonVariants[n]) : n \in 1..Len(ReasonVariants)}
           /\ converted[k].variant = reasons[k].variant
    /\ \A j, k \in 1..Len(converted) :
           reasons[j] # reasons[k] => converted[j] # converted[k]

\* Each of the three normalization reasons has been converted.
C14_Witness ==
    /\ Len(converted) = Len(reasons)
    /\ {reasons[k] : k \in 1..Len(reasons)} = NormalizeReasons

(* C15, as stated: the conversion yields the first three variants of       *)
(* Reason as listed and nothing else, and each of the three is the image   *)
(* of some normalization reason.                                           *)
C15_OntoFirstThree ==
    LET first3 == {Reason(ReasonVariants[n]) : n \in 1..3}
    IN  /\ Converted \subseteq first3
        /\ {reasons[k] : k \in 1..Len(converted)} = NormalizeReasons
               => Converted = first3

(* C15, amended: the conversion yields Unmapped, MissingComponent and      *)
(* Unsupported (the first, third and fifth variants of Reason) and nothing *)
(* else, and each of the three is the image of some normalization reason.  *)
C15_OntoSameNamedThree ==
    LET image == {Reason(ReasonVariants[n]) : n \in {1, 3, 5}}
    IN  /\ Converted \subseteq image
        /\ {reasons[k] : k \in 1..Len(converted)} = NormalizeReasons
               => Converted = image
        /\ {Reason_from(r) : r \in NormalizeReasons} = image

\* The three images have all been produced.
C15_Witness ==
    /\ Cardinality(Converted) = 3
    /\ Reason("Unsupported") \in Converted

(* C16: over every sequence of operations, also one in which read_raw is   *)
(* called before the header is loaded, a populated header cache is the     *)
(* record at file offset 0.                                                *)
C16_HeaderFromOffsetZero ==
    IsSome(ehdr) => Unwrap(ehdr) = img.ehdr

\* The prerequisites among the caches.
CachePrerequisites ==
    /\ ret.op = "open" =>
           /\ IsNone(ehdr) /\ IsNone(shdrs) /\ IsNone(shstrtab)
           /\ IsNone(symtab) /\ IsNone(symtab_origin) /\ IsNone(strtab)
    /\ IsSome(shdrs) => IsSome(ehdr)
    /\ IsSome(shstrtab) => IsSome(shdrs)
    /\ IsSome(symtab) <=> IsSome(symtab_origin)
    /\ (IsSome(symtab) \/ IsSome(strtab)) => IsSome(shstrtab)

\* Over a step, the cache c is left as it was or goes from None to loaded.
KeptOrFilled(c, cnext, loaded) == cnext = c \/ (IsNone(c) /\ cnext = Some(loaded))

(* C17: in every reachable state the caches are all empty right after      *)
(* open, shdrs implies ehdr, shstrtab implies shdrs, symtab holds exactly  *)
(* when symtab_origin does, and symtab or strtab implies shstrtab; an      *)
(* operation that returns an error leaves each cache as it was unless it   *)
(* filled it.                                                              *)
C17_CachePrerequisites ==
    /\ []CachePrerequisites
    /\ [][ret'.kind = "err" =>
            /\ KeptOrFilled(ehdr, ehdr', img.ehdr)
            /\ KeptOrFilled(shdrs, shdrs', SubSeq(img.shdrs, 1, img.ehdr.e_shnum))
            /\ KeptOrFilled(shstrtab, shstrtab', img.shstr)
            /\ KeptOrFilled(symtab, symtab', sort_by_key(img.syms))
            /\ KeptOrFilled(symtab_origin, symtab_origin', img.syms)
            /\ KeptOrFilled(strtab, strtab', img.str)]_vars

\* An operation that failed after it had filled the three section caches:
\* the symbol table's size is off.
C17_Witness ==
    /\ ret.kind = "err" /\ ret.err = "InvalidData"
    /\ ret.op \in SymtabOps
    /\ ret.reads = 4
    /\ IsSome(shstrtab) /\ IsNone(symtab) /\ IsNone(symtab_origin)

\* The lookups, which read the file to fill a cache only.
Lookups ==
    {"get_num_sections", "get_section_name", "get_section_size", "find_section",
     "get_num_symbols", "get_symbol", "get_symbol_origin", "get_symbol_name",
     "find_symbol"}

\* The operations that move the cursor by themselves.
CursorOps == {"section_seek", "section_offset_seek", "read_section_raw", "read_raw"}

(* C18: a successful section_seek(i) leaves the cursor at sh_offset(i); a  *)
(* lookup served from populated caches leaves the cursor where it was; a   *)
(* read_raw(buf) returns the len(buf) bytes at the cursor, when the file   *)
(* has them; and the cursor moves in cache fills, read_section_raw, seeks  *)
(* and read_raw only.                                                      *)
C18_CursorFrame ==
    [][/\ (ret'.op = "section_seek" /\ ret'.kind = "ok") =>
              pos' = At(Unwrap(shdrs'), ret'.a1).sh_offset
       /\ (ret'.op \in Lookups /\ Populated(ret'.op)) => pos' = pos
       /\ ret'.op = "read_raw" =>
              IF pos + ret'.a1 <= img.flen
              THEN /\ ret'.kind = "ok"
                   /\ ret'.num = pos /\ ret'.len = ret'.a1
                   /\ pos' = pos + ret'.a1
              ELSE ret'.kind = "err" /\ ret'.err = "UnexpectedEof"
       /\ pos' # pos => (ret'.op \in CursorOps \/ ret'.reads > 0)]_vars

\* A lookup served from the caches with the cursor at .strtab: the string
\* table and the symbol table were loaded, a seek went back to the section,
\* and the lookup left the cursor there for the read_raw to come.
C18_Witness ==
    /\ ret.op = "find_symbol" /\ ret.kind = "ok" /\ ret.reads = 0
    /\ IsSome(strtab) /\ IsSome(symtab)
    /\ \E i \in 0..(Len(img.shdrs) - 1) :
           /\ SectionNamed(i, DotStrtab)
           /\ pos = At(img.shdrs, i).sh_offset

=============================================================================
